---------------------------- MODULE Spec2Model ----------------------------
(***************************************************************************)
(* Model of matlab_proxy/util/mwi/validators.py: the validators that gate  *)
(* the start of matlab-proxy.  A process run picks one validator (fn), its *)
(* input (arg) and the environment it runs in (env, owner); the validator  *)
(* either returns a value or raises an exception.  Python strings are      *)
(* sequences of one-character strings; an optional value (None or a value) *)
(* is a record [some, v]; an exception message is the sequence of the      *)
(* pieces the f-string concatenates.                                       *)
(***************************************************************************)
EXTENDS Integers, Sequences, FiniteSets, TLC

VARIABLES
    fn,        \* the validator this run of the process calls
    arg,       \* the input of the pending (or last) call
    env,       \* what the call reads: file system, platform, entry points
    pc,        \* "call": about to call, "bound": probe socket bound,
               \* "done": the call returned or raised, "boot": restarting
    res,       \* outcome of the last call (NoRes before it ends)
    first,     \* outcome of the first call once its output is fed back
    owner,     \* TCP port -> who holds a socket bound to it
    sys,       \* the socket system calls the port check has made, in order
    later,     \* outcome of the server's own bind after the port check
    prevFail   \* the failure that ended the previous run of the process

vars == <<fn, arg, env, pc, res, first, owner, sys, later, prevFail>>

-----------------------------------------------------------------------------
(* Bounds of the model *)

MaxUrlLen == 5
MaxLicLen == 5
NumPorts == 2
MaxEntryPoints == 2

-----------------------------------------------------------------------------
(* Python values *)

None == [some |-> FALSE, v |-> <<>>]
Some(x) == [some |-> TRUE, v |-> x]

\* Python truthiness of an optional string: None and "" are falsy.
Truthy(o) == o.some /\ o.v # <<>>

\* str() of an optional string inside an f-string
Format(o) == IF o.some THEN o.v ELSE <<"None">>

\* os.path.isfile
isfile(path, e) == path \in e.files

Strings(alphabet, n) == UNION {[1..k -> alphabet] : k \in 0..n}

startswith(s, c) == Len(s) >= 1 /\ s[1] = c
endswith(s, c) == Len(s) >= 1 /\ s[Len(s)] = c
DropLast(s) == SubSeq(s, 1, Len(s) - 1)

\* Outcomes of a call.  site names the raise statement that fired.
NoRes == [status |-> "none", value |-> None, kind |-> "", msg |-> <<>>,
          site |-> "", logs |-> <<>>]
Return(v, logs) == [status |-> "ok", value |-> v, kind |-> "", msg |-> <<>>,
                    site |-> "", logs |-> logs]
Raise(kind, msg, site, logs) == [status |-> "raised", value |-> None,
                                 kind |-> kind, msg |-> msg, site |-> site,
                                 logs |-> logs]
Log(level, msg) == [level |-> level, msg |-> msg]

NoFail == [site |-> "", kind |-> ""]
NoEnv == [kind |-> "none"]
Ports == 1..NumPorts
NoPorts == [p \in Ports |-> "free"]

\* The start of a run of the process with configuration c.
Start(c) ==
    /\ fn = c.fn /\ arg = c.arg /\ env = c.env /\ owner = c.owner
    /\ pc = "call" /\ res = NoRes /\ first = NoRes
    /\ sys = <<>> /\ later = "none" /\ prevFail = NoFail

-----------------------------------------------------------------------------
(* validate_base_url *)

EnvNameBaseUrl == "MWI_BASE_URL"

BaseUrlAlphabet == {"/", "a"}
BaseUrlInputs == Strings(BaseUrlAlphabet, MaxUrlLen)

validate_base_url(base_url) ==
    LET msg == <<"The value of environment variable ", EnvNameBaseUrl,
                 " must start with \"/\" ">>
    IN  IF base_url = <<>> THEN Return(Some(<<>>), <<>>)
        ELSE IF ~startswith(base_url, "/")
             THEN Raise("FatalError", msg, "base_url", <<Log("error", msg)>>)
             ELSE Return(Some(IF endswith(base_url, "/")
                              THEN DropLast(base_url) ELSE base_url), <<>>)

BaseUrlConfigs ==
    [fn : {"base_url"}, arg : {Some(s) : s \in BaseUrlInputs},
     env : {NoEnv},
     owner : {NoPorts}]
InitBaseUrl == \E c \in BaseUrlConfigs : Start(c)

ValidateBaseUrl ==
    /\ fn = "base_url" /\ pc = "call"
    /\ res' = validate_base_url(arg.v)
    /\ pc' = "done"
    /\ UNCHANGED <<fn, arg, env, first, owner, sys, later, prevFail>>

-----------------------------------------------------------------------------
(* validate_mlm_license_file *)

Digits == {"0", "1", "2", "3", "4", "5", "6", "7", "8", "9"}
Letters == {"a", "b", "c", "d", "e", "f", "g", "h", "i", "j", "k", "l", "m",
            "n", "o", "p", "q", "r", "s", "t", "u", "v", "w", "x", "y", "z",
            "A", "B", "C", "D", "E", "F", "G", "H", "I", "J", "K", "L", "M",
            "N", "O", "P", "Q", "R", "S", "T", "U", "V", "W", "X", "Y", "Z"}
\* \w of Python's re on the characters above
WordChars == Letters \cup Digits \cup {"_"}
\* (\w|\_|\-|\.)
HostChars == WordChars \cup {"_", "-", "."}

\* system.get_mlm_license_file_seperator()
get_mlm_license_file_seperator(platform) ==
    IF platform = "windows" THEN ";" ELSE ":"

\* A split that drops the empty pieces.
re_split_skip_empty(seperator, s) ==
    LET RECURSIVE scan(_, _, _)
        scan(i, cur, acc) ==
            IF i > Len(s) THEN IF cur = <<>> THEN acc ELSE Append(acc, cur)
            ELSE IF s[i] \in {seperator, ","}
                 THEN scan(i + 1, <<>>, IF cur = <<>> THEN acc ELSE Append(acc, cur))
                 ELSE scan(i + 1, Append(cur, s[i]), acc)
    IN  scan(1, <<>>, <<>>)

\* re.split(f"{seperator}|,", s): the pieces between the separators, the
\* empty ones included.
re_split(seperator, s) ==
    LET RECURSIVE scan(_, _, _)
        scan(i, cur, acc) ==
            IF i > Len(s) THEN Append(acc, cur)
            ELSE IF s[i] \in {seperator, ","}
                 THEN scan(i + 1, <<>>, Append(acc, cur))
                 ELSE scan(i + 1, Append(cur, s[i]), acc)
    IN  scan(1, <<>>, <<>>)

\* The number of leading characters of s, from position i on, that are in cs.
Span(s, i, cs) ==
    LET RECURSIVE run(_)
        run(j) == IF j <= Len(s) /\ s[j] \in cs THEN run(j + 1) ELSE j
    IN  run(i) - i

\* The pattern without its closing $.
nlm_connection_str_regex_no_end(t) ==
    LET d == Span(t, 1, Digits)
        h == Span(t, d + 2, HostChars)
    IN  /\ d >= 1
        /\ d + 1 <= Len(t) /\ t[d + 1] = "@"
        /\ h >= 1

\* re.search("(^[0-9]+[@](\w|\_|\-|\.)+$)", t) finds a match.  Without
\* re.MULTILINE ^ matches at the start only, and $ at the end or before a
\* newline that ends the string.
nlm_connection_str_regex(t) ==
    LET d == Span(t, 1, Digits)
        h == Span(t, d + 2, HostChars)
        e == d + 1 + h
    IN  /\ d >= 1
        /\ d + 1 <= Len(t) /\ t[d + 1] = "@"
        /\ h >= 1
        /\ \/ e = Len(t)
           \/ e + 1 = Len(t) /\ t[e + 1] = "\n"

validate_mlm_license_file(nlm_connections_str, e) ==
    LET s == nlm_connections_str.v
        error_message ==
            <<"MLM_LICENSE_FILE validation failed for ">> \o s \o
            <<". If set, the MLM_LICENSE_FILE environment variable must contain server names (each of the form port@hostname) separated by ':' on unix or ';' on windows(server triads however must be comma seperated) OR path to a valid license file.">>
        seperator == get_mlm_license_file_seperator(e.platform)
        nlm_connection_strs == re_split(seperator, s)
        RECURSIVE loop(_, _)
        loop(i, logs) ==
            IF i > Len(nlm_connection_strs)
            THEN Return(nlm_connections_str, logs)
            ELSE LET t == nlm_connection_strs[i] IN
                 IF isfile(t, e)
                 THEN loop(i + 1, Append(logs, Log("info",
                          s \o <<" is a path to a file. MATLAB will attempt to use it.">>)))
                 ELSE IF nlm_connection_str_regex(t)
                 THEN loop(i + 1, Append(logs, Log("debug",
                          <<"Successfully validated ">> \o t)))
                 ELSE Raise("NetworkLicensingError", error_message, "license",
                          logs \o <<Log("error", <<"Failed to validate:">> \o t),
                                    Log("error", <<"NLM_info is not of the form port@hostname or a valid path to a file">>)>>)
    IN  IF ~Truthy(nlm_connections_str) THEN Return(None, <<>>)
        ELSE loop(1, <<Log("debug",
                 <<"Validating individual parts of the environment variable MLM_LICENSE_FILE">>)>>)

LicenseAlphabet == {"1", "h", "@", ",", ":", ";", "\n"}
LicenseInputs == Strings(LicenseAlphabet, MaxLicLen)
LicenseFiles == {<<"h">>, <<"h", ":", "h">>}

LicenseConfigs ==
    [fn : {"license"}, arg : {None} \cup {Some(s) : s \in LicenseInputs},
     env : [kind : {"license"}, platform : {"posix", "windows"},
            files : SUBSET LicenseFiles],
     owner : {NoPorts}]
InitLicense == \E c \in LicenseConfigs : Start(c)

ValidateMlmLicenseFile ==
    /\ fn = "license" /\ pc = "call"
    /\ res' = validate_mlm_license_file(arg, env)
    /\ pc' = "done"
    /\ UNCHANGED <<fn, arg, env, first, owner, sys, later, prevFail>>

-----------------------------------------------------------------------------
(* validate_ssl_cert_file, validate_ssl_key_and_cert_file *)

\* A missing cert file reported as the system's own error.
validate_ssl_cert_file_os_error(a_ssl_cert_file, e) ==
    IF Truthy(a_ssl_cert_file) /\ ~isfile(a_ssl_cert_file.v, e)
    THEN Raise("OSError", <<"ENOENT">>, "tls_cert_not_found", <<>>)
    ELSE Return(a_ssl_cert_file, <<>>)

validate_ssl_cert_file(a_ssl_cert_file, e) ==
    LET error_message ==
            <<"MWI_SSL_CERT_FILE is not a valid file: ">> \o a_ssl_cert_file.v
    IN  IF Truthy(a_ssl_cert_file) /\ ~isfile(a_ssl_cert_file.v, e)
        THEN Raise("FatalError", error_message, "tls_cert_not_found",
                   <<Log("error", error_message)>>)
        ELSE Return(a_ssl_cert_file, <<>>)

validate_ssl_key_and_cert_file(a_ssl_key_file, a_ssl_cert_file, e) ==
    LET pair == [key |-> a_ssl_key_file, cert |-> a_ssl_cert_file]
        checked == validate_ssl_cert_file(a_ssl_cert_file, e)
        cert_file == checked.value
        dependency_message ==
            <<"MWI_SSL_CERT_FILE must be provided to use the MWI_SSL_KEY_FILE">>
        key_message ==
            <<"MWI_SSL_KEY_FILE is not a valid file: ">> \o a_ssl_key_file.v
        advisory ==
            IF ~a_ssl_key_file.some /\ cert_file.some
            THEN <<Log("info",
                       <<"MWI_SSL_KEY_FILE is not provided, ensure that your MWI_SSL_CERT_FILE : '">>
                       \o cert_file.v \o <<"' contains a private key">>)>>
            ELSE <<>>
        summary ==
            Log("info", <<"SSL Keys provided were: MWI_SSL_CERT_FILE: ">>
                        \o Format(a_ssl_cert_file) \o <<" & MWI_SSL_KEY_FILE: ">>
                        \o Format(a_ssl_key_file))
    IN  IF ~a_ssl_cert_file.some /\ ~a_ssl_key_file.some
        THEN Return(pair, <<>>)
        ELSE IF checked.status = "raised" THEN checked
        ELSE IF ~cert_file.some /\ a_ssl_key_file.some
        THEN Raise("FatalError", dependency_message, "tls_dependency",
                   <<Log("error", dependency_message)>>)
        ELSE IF Truthy(a_ssl_key_file) /\ ~isfile(a_ssl_key_file.v, e)
        THEN Raise("FatalError", key_message, "tls_key_not_found",
                   advisory \o <<Log("error", key_message)>>)
        ELSE Return(pair, Append(advisory, summary))

TlsPaths == {<<"k">>, <<"c">>, <<"x">>}
TlsValues == {None, Some(<<>>)} \cup {Some(p) : p \in TlsPaths}

TlsConfigs ==
    [fn : {"tls"}, arg : [key : TlsValues, cert : TlsValues],
     env : [kind : {"tls"}, files : SUBSET TlsPaths],
     owner : {NoPorts}]
InitTls == \E c \in TlsConfigs : Start(c)

ValidateSslKeyAndCertFile ==
    /\ fn = "tls" /\ pc = "call"
    /\ res' = validate_ssl_key_and_cert_file(arg.key, arg.cert, env)
    /\ pc' = "done"
    /\ UNCHANGED <<fn, arg, env, first, owner, sys, later, prevFail>>

-----------------------------------------------------------------------------
(* __validate_if_paths_exist, terminate_on_invalid_matlab_root_path *)

VERSION_INFO_FILE_NAME == "VersionInfo.xml"
EnvNameCustomMatlabRoot == "MWI_CUSTOM_MATLAB_ROOT"

\* str() of a pathlib.Path, a sequence of components
RECURSIVE PathStr(_)
PathStr(path) ==
    IF path = <<>> THEN <<>> ELSE <<"/", Head(path)>> \o PathStr(Tail(path))

\* util.is_valid_path
is_valid_path(path, e) == path \in e.dirs \/ path \in e.files

\* The first of the paths that does not exist, as the OSError's message;
\* <<>> when all exist.
validate_if_paths_exist(paths, e) ==
    LET bad == {i \in 1..Len(paths) : ~is_valid_path(paths[i], e)}
    IN  IF bad = {} THEN <<>>
        ELSE <<"Supplied invalid path:">>
             \o PathStr(paths[CHOOSE i \in bad : \A j \in bad : i <= j])

\* The message that ignores the flag.
error_string_ignoring_flag(matlab_root, is_custom_matlab_root) ==
    <<"Unable to find MATLAB at: ">> \o PathStr(matlab_root) \o
    <<"\nUpdate your system PATH, and restart matlab-proxy.">>

\* Lines 322-327: error_string
error_string_for(matlab_root, is_custom_matlab_root) ==
    <<"Unable to find MATLAB at: ">> \o PathStr(matlab_root) \o
    (IF is_custom_matlab_root
     THEN <<"\nEdit the environment variable ", EnvNameCustomMatlabRoot,
            " to the correct path, and restart matlab-proxy.">>
     ELSE <<"\nUpdate your system PATH, and restart matlab-proxy.">>)

terminate_on_invalid_matlab_root_path(matlab_root, is_custom_matlab_root, e) ==
    LET error_string == error_string_for(matlab_root, is_custom_matlab_root)
        exc == validate_if_paths_exist(<<matlab_root>>, e)
        exists_log ==
            Log("debug", <<"Specified MATLAB root path:">> \o PathStr(matlab_root)
                         \o <<" exists, continuing to verify its validity...">>)
        version_info_file_path == Append(matlab_root, VERSION_INFO_FILE_NAME)
        log_error_string ==
            error_string \o <<"Failed to locate ", VERSION_INFO_FILE_NAME,
                              " at this location.">>
    IN  IF exc # <<>>
        THEN Raise("MatlabInstallError", error_string, "root_not_found",
                   <<Log("error", exc)>>)
        ELSE IF ~isfile(version_info_file_path, e)
        THEN Raise("MatlabInstallError", error_string, "marker_not_found",
                   <<exists_log, Log("error", log_error_string)>>)
        ELSE Return(Some(matlab_root), <<exists_log>>)

MatlabRoots == {<<"opt", "matlab">>, <<"usr", "matlab">>}
\* What a root path can be on disk.
RootShapes == {"absent", "file", "dir", "dir_with_marker", "dir_with_marker_dir"}
RootDirs(shape) ==
    {r \in MatlabRoots : shape[r] \in {"dir", "dir_with_marker", "dir_with_marker_dir"}}
    \cup {Append(r, VERSION_INFO_FILE_NAME) : r \in
             {x \in MatlabRoots : shape[x] = "dir_with_marker_dir"}}
RootFiles(shape) ==
    {r \in MatlabRoots : shape[r] = "file"}
    \cup {Append(r, VERSION_INFO_FILE_NAME) : r \in
             {x \in MatlabRoots : shape[x] = "dir_with_marker"}}

RootConfigs ==
    [fn : {"root"}, arg : [root : MatlabRoots, is_custom : BOOLEAN],
     env : {[kind |-> "root", dirs |-> RootDirs(sh), files |-> RootFiles(sh)] :
               sh \in [MatlabRoots -> RootShapes]},
     owner : {NoPorts}]
InitRoot == \E c \in RootConfigs : Start(c)

TerminateOnInvalidMatlabRootPath ==
    /\ fn = "root" /\ pc = "call"
    /\ res' = terminate_on_invalid_matlab_root_path(arg.root, arg.is_custom, env)
    /\ pc' = "done"
    /\ UNCHANGED <<fn, arg, env, first, owner, sys, later, prevFail>>

-----------------------------------------------------------------------------
(* __get_configs, validate_env_config *)

\* A Python dict: a sequence of [k, v] items in insertion order, keys distinct.
DictKeys(d) == [i \in DOMAIN d |-> d[i].k]
DictHas(d, key) == \E i \in DOMAIN d : d[i].k = key
DictGet(d, key) == d[CHOOSE i \in DOMAIN d : d[i].k = key].v
DictSet(d, key, val) ==
    IF DictHas(d, key)
    THEN [i \in DOMAIN d |-> IF d[i].k = key THEN [k |-> key, v |-> val] ELSE d[i]]
    ELSE Append(d, [k |-> key, v |-> val])

UpperCase == <<"A", "B", "C", "D", "E", "F", "G", "H", "I", "J", "K", "L", "M",
               "N", "O", "P", "Q", "R", "S", "T", "U", "V", "W", "X", "Y", "Z">>
LowerCase == <<"a", "b", "c", "d", "e", "f", "g", "h", "i", "j", "k", "l", "m",
               "n", "o", "p", "q", "r", "s", "t", "u", "v", "w", "x", "y", "z">>
\* str.lower()
lower(s) ==
    [i \in DOMAIN s |->
        IF \E j \in DOMAIN UpperCase : UpperCase[j] = s[i]
        THEN LowerCase[CHOOSE j \in DOMAIN UpperCase : UpperCase[j] = s[i]]
        ELSE s[i]]

\* matlab_proxy.get_default_config_name()
get_default_config_name == <<"d", "e", "f", "a", "u", "l", "t">>

\* configs[entry_point.name.lower()] = entry_point.load(), over the entry
\* points in the order pkg_resources yields them
get_configs(entry_points) ==
    LET RECURSIVE build(_, _)
        build(i, configs) ==
            IF i > Len(entry_points) THEN configs
            ELSE build(i + 1, DictSet(configs, lower(entry_points[i].name),
                                      entry_points[i].record))
    IN  build(1, <<>>)

\* str(list(names)) spelled as message pieces
RECURSIVE ListStr(_)
ListStr(names) ==
    IF names = <<>> THEN <<>>
    ELSE <<"'">> \o Head(names) \o <<"'">> \o
         (IF Len(names) > 1 THEN <<", ">> ELSE <<>>) \o ListStr(Tail(names))

\* Lines 185-205: the lookup of the lowercased name and the key check.
env_config_for(config, available_configs) ==
    LET default_config_keys ==
            DictKeys(DictGet(available_configs, get_default_config_name))
        env_config == DictGet(available_configs, config)
        missing == {i \in DOMAIN default_config_keys :
                       ~DictHas(env_config, default_config_keys[i])}
        key == default_config_keys[CHOOSE i \in missing : \A j \in missing : i <= j]
        schema_message ==
            <<key, " missing in the provided ">> \o config \o <<" configuration">>
        unknown_message ==
            config \o <<" is not a valid config. Available configs are : [">>
            \o ListStr(DictKeys(available_configs)) \o <<"]">>
    IN  IF DictHas(available_configs, config)
        THEN IF missing # {}
             THEN Raise("FatalError", schema_message, "profile_schema",
                        <<Log("error", schema_message)>>)
             ELSE Return(Some(env_config),
                         <<Log("debug", <<"Successfully validated provided ">>
                                        \o config \o <<" configuration">>)>>)
        ELSE Raise("FatalError", unknown_message, "profile_not_found",
                   <<Log("error", unknown_message)>>)

validate_env_config_case_sensitive(config, e) ==
    env_config_for(config, get_configs(e.entry_points))

validate_env_config(config, e) ==
    env_config_for(lower(config), get_configs(e.entry_points))

ProfileKeys == {"extension_name", "doc_url"}
ProfileRecords ==
    {d \in UNION {[1..n -> [k : ProfileKeys, v : {"value"}]] : n \in 0..2} :
        \A i, j \in DOMAIN d : d[i].k = d[j].k => i = j}
EntryPointNames == {get_default_config_name,
                    <<"c", "l", "o", "u", "d">>, <<"C", "l", "o", "u", "d">>}
ProfileNames == EntryPointNames \cup
                {<<"D", "e", "f", "a", "u", "l", "t">>,
                 <<"C", "L", "O", "U", "D">>, <<"d", "e", "v">>}
\* The installed entry points; matlab-proxy itself installs the default one.
EntryPointLists ==
    {eps \in UNION {[1..n -> [name : EntryPointNames, record : ProfileRecords]] :
                       n \in 1..MaxEntryPoints} :
        \E i \in DOMAIN eps : lower(eps[i].name) = get_default_config_name}

ProfileConfigs ==
    [fn : {"profile"}, arg : {Some(n) : n \in ProfileNames},
     env : [kind : {"profile"}, entry_points : EntryPointLists],
     owner : {NoPorts}]
InitProfile == \E c \in ProfileConfigs : Start(c)

ValidateEnvConfig ==
    /\ fn = "profile" /\ pc = "call"
    /\ res' = validate_env_config(arg.v, env)
    /\ pc' = "done"
    /\ UNCHANGED <<fn, arg, env, first, owner, sys, later, prevFail>>

-----------------------------------------------------------------------------
(* validate_app_port_is_free *)

EnvNameAppPort == "MWI_APP_PORT"

\* A port argument: None, an int, a str of digits, or a str that is no number.
PortNone == [t |-> "none", v |-> 0]
PortArgs == {PortNone, [t |-> "text", v |-> 0]} \cup [t : {"int", "str"}, v : Ports]

\* errno of s.bind(("", port)) in environment e with the ports held as in o;
\* "" when the bind succeeds
bind_errno(port, e, o) ==
    IF o[port] # "free" THEN "EADDRINUSE"
    ELSE IF port \in e.denied THEN "EACCES"
    ELSE ""

\* An except clause that reports every socket.error as a port in use.
port_error_always_in_use(port, errno) ==
    LET error_message ==
            <<"The port ", ToString(port.v),
              " is not available. Please set another value for the environment variable ",
              EnvNameAppPort>>
    IN  Raise("FatalError", error_message, "port_in_use",
              <<Log("error", error_message)>>)

\* What the except clause does with a socket.error of the given errno.
port_error(port, errno) ==
    LET error_message ==
            <<"The port ", ToString(port.v),
              " is not available. Please set another value for the environment variable ",
              EnvNameAppPort>>
    IN  IF errno = "EADDRINUSE"
        THEN Raise("FatalError", error_message, "port_in_use",
                   <<Log("error", error_message)>>)
        ELSE Raise("OSError", <<errno>>, "port_bind_error", <<>>)

\* Lines 122-130 and 135-141: the None case, socket(), int(port), bind() and
\* the except clause.
PortCheckBind ==
    /\ fn = "port" /\ pc = "call"
    /\ IF arg = PortNone
       THEN /\ res' = Return(arg, <<Log("debug",
                   <<"Environment variable ", EnvNameAppPort,
                     " was not set. Will use a random port at launch.">>)>>)
            /\ pc' = "done"
            /\ UNCHANGED <<owner, sys>>
       ELSE IF arg.t = "text"
       THEN /\ res' = Raise("ValueError", <<"invalid literal for int()">>,
                            "port_not_a_number", <<>>)
            /\ pc' = "done"
            /\ sys' = Append(sys, [call |-> "socket", errno |-> ""])
            /\ UNCHANGED owner
       ELSE LET errno == bind_errno(arg.v, env, owner) IN
            /\ sys' = sys \o <<[call |-> "socket", errno |-> ""],
                               [call |-> "bind", errno |-> errno]>>
            /\ IF errno = ""
               THEN /\ owner' = [owner EXCEPT ![arg.v] = "probe"]
                    /\ pc' = "bound"
                    /\ UNCHANGED res
               ELSE /\ res' = port_error(arg, errno)
                    /\ pc' = "done"
                    /\ UNCHANGED owner
    /\ UNCHANGED <<fn, arg, env, first, later, prevFail>>

\* A return that leaves the probe socket open.
PortCheckReturnWithoutClose ==
    /\ fn = "port" /\ pc = "bound"
    /\ res' = Return(arg, <<>>)
    /\ pc' = "done"
    /\ UNCHANGED <<fn, arg, env, first, owner, sys, later, prevFail>>

\* Lines 131-134: s.close() and the return.
PortCheckCloseReturn ==
    /\ fn = "port" /\ pc = "bound"
    /\ owner' = [owner EXCEPT ![arg.v] = "free"]
    /\ sys' = Append(sys, [call |-> "close", errno |-> ""])
    /\ res' = Return(arg, <<>>)
    /\ pc' = "done"
    /\ UNCHANGED <<fn, arg, env, first, later, prevFail>>

\* Another process binds a free port, or closes its socket.
OtherBind ==
    /\ fn = "port"
    /\ \E p \in Ports :
          /\ owner[p] = "free"
          /\ owner' = [owner EXCEPT ![p] = "other"]
    /\ UNCHANGED <<fn, arg, env, pc, res, first, sys, later, prevFail>>

OtherClose ==
    /\ fn = "port"
    /\ \E p \in Ports :
          /\ owner[p] = "other"
          /\ owner' = [owner EXCEPT ![p] = "free"]
    /\ UNCHANGED <<fn, arg, env, pc, res, first, sys, later, prevFail>>

\* The server binds the port the check passed.
ServerBind ==
    /\ fn = "port" /\ pc = "done" /\ res.status = "ok" /\ later = "none"
    /\ arg.t \in {"int", "str"}
    /\ IF owner[arg.v] = "free"
       THEN /\ owner' = [owner EXCEPT ![arg.v] = "server"]
            /\ later' = "bound"
       ELSE /\ later' = "failed"
            /\ UNCHANGED owner
    /\ UNCHANGED <<fn, arg, env, pc, res, first, sys, prevFail>>

PortConfigs ==
    [fn : {"port"}, arg : PortArgs,
     env : [kind : {"port"}, denied : SUBSET Ports],
     owner : [Ports -> {"free", "other"}]]
InitPort == \E c \in PortConfigs : Start(c)

-----------------------------------------------------------------------------
\* The caller passes a validator's successful output to the same validator
\* again.
Reapply ==
    /\ pc = "done" /\ res.status = "ok" /\ first = NoRes
    /\ fn \in {"base_url", "license", "tls"}
    /\ first' = res
    /\ arg' = res.value
    /\ res' = NoRes
    /\ pc' = "call"
    /\ UNCHANGED <<fn, env, owner, sys, later, prevFail>>

(* The process: one validator per run; a failure ends the run, and the     *)
(* operator starts the process again with a new configuration.             *)

GateConfigs ==
    BaseUrlConfigs \cup TlsConfigs \cup RootConfigs \cup ProfileConfigs
    \cup PortConfigs
InitGate == \E c \in GateConfigs : Start(c)

Restart ==
    /\ pc = "done" /\ res.status = "raised" /\ prevFail = NoFail
    /\ prevFail' = [site |-> res.site, kind |-> res.kind]
    /\ pc' = "boot"
    /\ fn' = "" /\ arg' = None /\ env' = NoEnv /\ owner' = NoPorts
    /\ res' = NoRes /\ first' = NoRes /\ sys' = <<>> /\ later' = "none"

Configure ==
    /\ pc = "boot"
    /\ \E c \in GateConfigs :
          fn' = c.fn /\ arg' = c.arg /\ env' = c.env /\ owner' = c.owner
    /\ pc' = "call"
    /\ UNCHANGED <<res, first, sys, later, prevFail>>

-----------------------------------------------------------------------------
(* Specifications *)

NextBaseUrl == ValidateBaseUrl \/ Reapply
SpecBaseUrl == InitBaseUrl /\ [][NextBaseUrl]_vars

NextTls == ValidateSslKeyAndCertFile \/ Reapply
SpecTls == InitTls /\ [][NextTls]_vars

NextRoot == TerminateOnInvalidMatlabRootPath
SpecRoot == InitRoot /\ [][NextRoot]_vars

NextProfile == ValidateEnvConfig
SpecProfile == InitProfile /\ [][NextProfile]_vars

NextPort ==
    \/ PortCheckBind
    \/ PortCheckCloseReturn
    \/ OtherBind
    \/ OtherClose
    \/ ServerBind
SpecPort == InitPort /\ [][NextPort]_vars

NextLicense == ValidateMlmLicenseFile \/ Reapply
SpecLicense == InitLicense /\ [][NextLicense]_vars

NextGate ==
    \/ ValidateBaseUrl
    \/ ValidateSslKeyAndCertFile
    \/ TerminateOnInvalidMatlabRootPath
    \/ ValidateEnvConfig
    \/ PortCheckBind
    \/ PortCheckCloseReturn
    \/ Restart
    \/ Configure
SpecGate == InitGate /\ [][NextGate]_vars

-----------------------------------------------------------------------------
(* Properties *)

Done(f) == fn = f /\ pc = "done"
Raised(site) == res.status = "raised" /\ res.site = site

\* C1: TlsKeyCertValidator: whenever a key is supplied (here: a key file
\* that exists) and the cert is None or the empty string, the call fails with
\* the dependency error; and every successful return that carries a key
\* carries a non-empty cert that is an existing file.
C1_KeyRequiresCert ==
    Done("tls") /\ Truthy(arg.key) /\ arg.key.v \in env.files =>
        /\ ~Truthy(arg.cert) => Raised("tls_dependency")
        /\ res.status = "ok" => Truthy(res.value.cert)
                                /\ res.value.cert.v \in env.files

\* The pieces of s between the characters of seps.
TokensOf(s, seps) ==
    {SubSeq(s, ij[1], ij[2]) :
        ij \in {x \in (1..Len(s) + 1) \X (0..Len(s)) :
                   /\ x[2] >= x[1] - 1
                   /\ x[1] = 1 \/ s[x[1] - 1] \in seps
                   /\ x[2] = Len(s) \/ s[x[2] + 1] \in seps
                   /\ \A k \in x[1]..x[2] : s[k] \notin seps}}

\* t matches ^[0-9]+@[\w\-.]+$ ($ of Python's re: at the end, or before a
\* newline that ends the string).
MatchesGrammar(t) ==
    \E a \in 2..Len(t) : \E z \in {Len(t) - 1, Len(t)} :
        /\ t[a] = "@"
        /\ \A k \in 1..a - 1 : t[k] \in Digits
        /\ z > a
        /\ \A k \in a + 1..z : t[k] \in Letters \cup Digits \cup {"_", "-", "."}
        /\ z = Len(t) \/ t[Len(t)] = "\n"

PlatformSeps == {",", IF env.platform = "windows" THEN ";" ELSE ":"}

HasEmptyToken(s, seps) ==
    \/ s[1] \in seps
    \/ s[Len(s)] \in seps
    \/ \E i \in 1..Len(s) - 1 : s[i] \in seps /\ s[i + 1] \in seps

C4_BaseUrlNormalized ==
    Done("base_url") /\ res.status = "ok" =>
        \/ res.value.v = <<>>
        \/ startswith(res.value.v, "/") /\ ~endswith(res.value.v, "/")

\* C5: Idempotence: a validator applied to its own successful output succeeds
\* with the same output.
C5_Idempotent ==
    pc = "done" /\ first # NoRes =>
        res.status = "ok" /\ res.value = first.value

BindCalls == {i \in DOMAIN sys : sys[i].call = "bind"}

NamedFailures == {"port_in_use", "base_url", "tls_cert_not_found",
                  "tls_key_not_found", "tls_dependency",
                  "profile_not_found", "profile_schema"}
\* The field a failure mode belongs to.
FieldOf(site) ==
    CASE site = "port_in_use" -> "port"
      [] site = "base_url" -> "base_url"
      [] site \in {"tls_cert_not_found", "tls_key_not_found"} -> "tls_file"
      [] site = "tls_dependency" -> "tls_dependency"
      [] site = "profile_not_found" -> "profile_not_found"
      [] site = "profile_schema" -> "profile_schema"
      [] OTHER -> site

EqualIgnoringCase(a, b) ==
    /\ Len(a) = Len(b)
    /\ \A i \in DOMAIN a :
          \/ a[i] = b[i]
          \/ \E j \in DOMAIN UpperCase :
                {a[i], b[i]} = {UpperCase[j], LowerCase[j]}

\* The record the last entry point named n (in any letter case) loads.
Registered(n) == {i \in DOMAIN env.entry_points :
                     EqualIgnoringCase(env.entry_points[i].name, n)}
RecordOf(n) ==
    env.entry_points[CHOOSE i \in Registered(n) :
                         \A j \in Registered(n) : j <= i].record

\* C8: ProfileResolver: the call succeeds exactly when the name, in any
\* letter case, is registered and its record has every key of the default
\* record, and then returns that record unchanged; an unregistered name fails
\* as not found, a record missing a default key fails naming such a key; names
\* differing only in case have the same outcome.
C8_ProfileResolved ==
    Done("profile") =>
        LET name == arg.v
            found == Registered(name) # {}
            rec == RecordOf(name)
            dflt == RecordOf(get_default_config_name)
            missing == {dflt[i].k : i \in DOMAIN dflt} \ {rec[i].k : i \in DOMAIN rec}
        IN  /\ res.status = "ok" <=> found /\ missing = {}
            /\ res.status = "ok" => res.value = Some(rec)
            /\ ~found => Raised("profile_not_found")
            /\ found /\ missing # {} =>
                   Raised("profile_schema") /\ res.msg[1] \in missing
            /\ \A other \in ProfileNames :
                   EqualIgnoringCase(other, name) =>
                       validate_env_config(other, env) = res

C8_Witness ==
    /\ Done("profile") /\ res.status = "ok"
    /\ arg = Some(<<"C", "L", "O", "U", "D">>)
    /\ Len(res.value.v) = 2
    /\ RecordOf(get_default_config_name) # res.value.v

RootNotFoundMessage(root, is_custom) ==
    <<"Unable to find MATLAB at: ">> \o PathStr(root) \o
    (IF is_custom
     THEN <<"\nEdit the environment variable ", "MWI_CUSTOM_MATLAB_ROOT",
            " to the correct path, and restart matlab-proxy.">>
     ELSE <<"\nUpdate your system PATH, and restart matlab-proxy.">>)
MissingDescriptorNote ==
    <<"Failed to locate ", "VersionInfo.xml", " at this location.">>
RootExistsWithoutMarker ==
    /\ arg.root \in env.dirs \cup env.files
    /\ Append(arg.root, "VersionInfo.xml") \notin env.files

\* C9 as stated: when the root exists without the marker file, the raised
\* message is the root-not-found message for the flag with the
\* missing-descriptor note appended, and differs between the flags.
C9_MessageHasDescriptorNote ==
    Done("root") /\ RootExistsWithoutMarker =>
        /\ res.status = "raised" /\ res.kind = "MatlabInstallError"
        /\ res.msg = RootNotFoundMessage(arg.root, arg.is_custom)
                     \o MissingDescriptorNote
        /\ res.msg # terminate_on_invalid_matlab_root_path(
                         arg.root, ~arg.is_custom, env).msg

\* C9 as amended: the raised message is the root-not-found message for the
\* flag alone; the note is appended only to the error that is logged; the
\* raised messages for the two flags differ.
C9_NoteOnlyInLog ==
    Done("root") /\ RootExistsWithoutMarker =>
        /\ res.status = "raised" /\ res.kind = "MatlabInstallError"
        /\ res.msg = RootNotFoundMessage(arg.root, arg.is_custom)
        /\ res.logs[Len(res.logs)] =
               Log("error", RootNotFoundMessage(arg.root, arg.is_custom)
                            \o MissingDescriptorNote)
        /\ res.msg # terminate_on_invalid_matlab_root_path(
                         arg.root, ~arg.is_custom, env).msg

C9_Witness ==
    /\ Done("root") /\ Raised("marker_not_found")
    /\ arg.is_custom /\ arg.root \in env.dirs

\* C10: PortAvailabilityChecker does not reserve the port: once the check
\* has returned, the probe socket holds no port (it was closed before the
\* return); the server's later bind can still fail (C10_Witness).
C10_ProbeReleased ==
    Done("port") =>
        /\ \A p \in Ports : owner[p] # "probe"
        /\ res.status = "ok" /\ BindCalls # {} =>
               sys[Len(sys)].call = "close"

C10_Witness ==
    /\ Done("port") /\ res.status = "ok"
    /\ later = "failed" /\ owner[arg.v] = "other"
    /\ \E i \in BindCalls : sys[i].errno = ""

=============================================================================
